---------------------------- MODULE Spec2Model ----------------------------
(***************************************************************************)
(* Model of the serialization layer of the mockchain:                      *)
(*   - Block::serialize / Block::deserialize (block/mod.rs)                *)
(*   - BlockContents::compute_hash_size on contents of 2^32 bytes and      *)
(*     more, by the lengths of the messages (block/mod.rs)                 *)
(*   - UpdateProposal::serialize / UpdateProposal::read (setting.rs)       *)
(*   - Settings::apply (setting.rs)                                        *)
(*   - Witness and TransactionIdSpendingCounter (transaction/witness.rs)   *)
(*   - HDKey::encrypt / decrypt / encrypt_path / decrypt_path              *)
(*     (wallet-crypto hdpayload.rs)                                        *)
(*   - StakePoolInfo::to_id / StakePoolInfo::serialize (stake/role.rs)     *)
(*                                                                         *)
(* Bytes are the integers 0..255 and every byte stream is a sequence of    *)
(* bytes.  TLC's integers are 32-bit signed, so a u32 is kept as its two   *)
(* big-endian u16 limbs <<hi, lo>> and a u64 as four of them; all          *)
(* arithmetic on them is done limb-wise, modulo 2^32 (resp. 2^64).         *)
(***************************************************************************)
EXTENDS Integers, Sequences, FiniteSets, TLC

VARIABLES
    \* ---- Block::serialize / Block::deserialize
    blk,                      \* Option<Block>: the block handed to serialize
    writer,                   \* the bytes Block::serialize wrote
    reader,                   \* the bytes left in the BufRead of deserialize
    header,                   \* Option<Header>: `header` of deserialize
    serialized_content_size,  \* u32 <<hi, lo>>: the loop's remaining size
    contents,                 \* Vec<Message>: `contents` of deserialize
    wrapped,                  \* the u32 subtraction overflowed at least once
    bpc,                      \* position: new, written, wire, loop, ok, err, panic
    \* ---- UpdateProposal::serialize / UpdateProposal::read
    proposal,                 \* Option<UpdateProposal>: the value serialized
    codec,                    \* the bytes UpdateProposal::serialize wrote
    records,                  \* the records the wire input was drawn from
    buf,                      \* ReadBuf: [data, offset]
    update,                   \* `update` of UpdateProposal::read
    uerr,                     \* the ReadError returned, "" when none
    upc,                      \* position: new, written, reading, ok, err, panic
    \* ---- Settings::apply
    settings,                 \* `self` of Settings::apply
    sproposal,                \* `update` of Settings::apply
    new_state,                \* Option<Settings>: the value apply returned
    spc,                      \* position: idle, call, returned
    \* ---- transaction/witness.rs
    wop,                      \* what is called: tidsc, account, own_tx, verify
    transaction_id,           \* TransactionId: 32 bytes
    spending_counter,         \* account::SpendingCounter: u32 <<hi, lo>>
    secret_key,               \* Option<secret key>
    public_key,               \* the SpendingPublicKey handed to verify_utxo
    witness,                  \* Option<Witness>
    preimage,                 \* Option<TransactionIdSpendingCounter>
    verification,             \* the Verification returned, "" when none
    wpc,                      \* position: idle, call, made, done, panic
    \* ---- wallet-crypto hdpayload.rs
    hop,                      \* what is called: path, bytes, decrypt
    hdkey,                    \* HDKey: HDKEY_SIZE bytes
    hd_path,                  \* Option<Path>: the path handed to encrypt_path
    hd_input,                 \* `input` of encrypt
    hd_payload,               \* what encrypt returned / `input` of decrypt
    hd_out,                   \* Option<Vec<u8>>: what decrypt returned
    hd_path_out,              \* Option<Path>: what decrypt_path returned
    hpc,                      \* position: idle, call, encrypted, done, panic, alloc
    \* ---- stake/role.rs
    stop,                     \* what is called: to_id, serialize
    pools,                    \* the StakePoolInfo values the calls are made on
    id_preimages,             \* per call of to_id, the `v` that was hashed
    ids,                      \* per call of to_id, the StakePoolId returned
    pool_codec,               \* the bytes StakePoolInfo::serialize wrote
    stpc,                     \* position: idle, call, done, panic
    \* ---- compute_hash_size, impl Arbitrary for Block, is_consistent: sizes
    content_lens,             \* the contents, by the lengths of the raw messages
    content_size,             \* Option<usize>: `size` of compute_hash_size
    arb_content_size,         \* Option<u32>: header.common.block_content_size
    consistent,               \* Option<bool>: what is_consistent returned
    zpc                       \* position: idle, call, sized, built, checked

blockVars == <<blk, writer, reader, header, serialized_content_size,
               contents, wrapped, bpc>>
updateVars == <<proposal, codec, records, buf, update, uerr, upc>>
settingsVars == <<settings, sproposal, new_state, spc>>
witnessVars == <<wop, transaction_id, spending_counter, secret_key, public_key,
                 witness, preimage, verification, wpc>>
hdVars == <<hop, hdkey, hd_path, hd_input, hd_payload, hd_out, hd_path_out, hpc>>
stakeVars == <<stop, pools, id_preimages, ids, pool_codec, stpc>>
sizeVars == <<content_lens, content_size, arb_content_size, consistent, zpc>>
vars == <<blockVars, updateVars, settingsVars, witnessVars, hdVars, stakeVars,
          sizeVars>>

\* what the steps of one part of the program leave alone
nonBlockVars == <<updateVars, settingsVars, witnessVars, hdVars, stakeVars, sizeVars>>
nonUpdateVars == <<blockVars, settingsVars, witnessVars, hdVars, stakeVars, sizeVars>>
nonSettingsVars == <<blockVars, updateVars, witnessVars, hdVars, stakeVars, sizeVars>>
nonWitnessVars == <<blockVars, updateVars, settingsVars, hdVars, stakeVars, sizeVars>>
nonHdVars == <<blockVars, updateVars, settingsVars, witnessVars, stakeVars, sizeVars>>
nonStakeVars == <<blockVars, updateVars, settingsVars, witnessVars, hdVars, sizeVars>>
nonSizeVars == <<blockVars, updateVars, settingsVars, witnessVars, hdVars, stakeVars>>

----------------------------------------------------------------------------
(* Bounds of the model *)

\* longest message stream (bytes after the HeaderRaw) drawn for a wire input
MaxTail == 6
\* largest block_content_size a drawn wire header declares
MaxDeclared == 7
\* most messages in a block handed to Block::serialize
MaxMessages == 2
\* most records before the terminator in a drawn UpdateProposal wire input
MaxRecords == 2
\* most indices in a derivation path handed to encrypt_path
MaxPath == 2
\* longest plaintext, drawn byte by byte, handed to HDKey::encrypt
MaxPlain == 3
\* most owners of a pool whose owner list is drawn key by key
MaxOwners == 2
\* most runs of 65536 equal messages in contents given by their lengths
MaxRuns == 2

----------------------------------------------------------------------------
(* Option, and sequence helpers *)

None == <<>>
Some(v) == <<v>>
IsSome(o) == o # <<>>
Unwrap(o) == o[1]

Take(s, n) == SubSeq(s, 1, n)
Drop(s, n) == SubSeq(s, n + 1, Len(s))

RECURSIVE Flatten(_)
Flatten(ss) == IF ss = <<>> THEN <<>> ELSE Head(ss) \o Flatten(Tail(ss))

\* all sequences over S of length 0..n
RECURSIVE SeqsUpTo(_, _)
SeqsUpTo(S, n) ==
    IF n = 0 THEN {<<>>}
    ELSE LET shorter == SeqsUpTo(S, n - 1)
         IN  shorter \cup {Append(s, x) : s \in {t \in shorter : Len(t) = n - 1}, x \in S}

Repeat(x, n) == [i \in 1..n |-> x]

\* the concatenation of a sequence of byte strings that all have width w
FlattenFixed(ss, w) ==
    [k \in 1..(Len(ss) * w) |-> ss[((k - 1) \div w) + 1][((k - 1) % w) + 1]]

----------------------------------------------------------------------------
(* chain_core::packer::Codec and chain_core::mempack::ReadBuf: fixed-width *)
(* big-endian integers.                                                    *)

put_u8(x) == <<x % 256>>
put_u16(x) == <<(x \div 256) % 256, x % 256>>
\* a u32 is <<hi, lo>>, a u64 <<l3, l2, l1, l0>> (u16 limbs, most significant first)
put_u32(x) == put_u16(x[1]) \o put_u16(x[2])
put_u64(x) == put_u16(x[1]) \o put_u16(x[2]) \o put_u16(x[3]) \o put_u16(x[4])

\* get_uN at `off` (0-based cursor) of `data`: [ok, value, off], or ok = FALSE
\* (ReadError::NotEnough) when fewer than N/8 bytes are left.
NotEnough == [ok |-> FALSE, value |-> 0, off |-> 0]
get_u8(data, off) ==
    IF Len(data) - off < 1 THEN NotEnough
    ELSE [ok |-> TRUE, value |-> data[off + 1], off |-> off + 1]
get_u16(data, off) ==
    IF Len(data) - off < 2 THEN NotEnough
    ELSE [ok |-> TRUE, value |-> data[off + 1] * 256 + data[off + 2], off |-> off + 2]
get_u32(data, off) ==
    IF Len(data) - off < 4 THEN NotEnough
    ELSE [ok |-> TRUE,
          value |-> <<data[off + 1] * 256 + data[off + 2],
                      data[off + 3] * 256 + data[off + 4]>>,
          off |-> off + 4]
get_u64(data, off) ==
    IF Len(data) - off < 8 THEN NotEnough
    ELSE [ok |-> TRUE,
          value |-> <<data[off + 1] * 256 + data[off + 2],
                      data[off + 3] * 256 + data[off + 4],
                      data[off + 5] * 256 + data[off + 6],
                      data[off + 7] * 256 + data[off + 8]>>,
          off |-> off + 8]

\* `n as u32` for a usize n (n < 2^31 in every state of the model)
AsU32(n) == <<(n \div 65536) % 65536, n % 65536>>
\* a usize is the usize of a 64-bit target: four u16 limbs, most
\* significant first
\* the usize of a length n < 2^31
UsizeOfLen(n) == <<0, 0, n \div 65536, n % 65536>>
\* `x as usize` of a u32
U32AsUsize(x) == <<0, 0, x[1], x[2]>>
\* `x as u32` of a usize: the low 32 bits
UsizeAsU32(x) == <<x[3], x[4]>>
\* a + b on usize (no sum of the model reaches 2^64)
UsizeAdd(a, b) ==
    LET s4 == a[4] + b[4]
        s3 == a[3] + b[3] + (s4 \div 65536)
        s2 == a[2] + b[2] + (s3 \div 65536)
        s1 == a[1] + b[1] + (s2 \div 65536)
    IN  <<s1 % 65536, s2 % 65536, s3 % 65536, s4 % 65536>>
U32Zero == <<0, 0>>
\* a > b on u32
U32Gt(a, b) == a[1] > b[1] \/ (a[1] = b[1] /\ a[2] > b[2])
\* a - b modulo 2^32 (u32::wrapping_sub)
U32WrappingSub(a, b) ==
    LET borrow == IF a[2] < b[2] THEN 1 ELSE 0
    IN  <<(a[1] - b[1] - borrow + 65536) % 65536, (a[2] - b[2] + 65536) % 65536>>

----------------------------------------------------------------------------
(* Hash (Blake2b-256), Header, HeaderRaw, Message, MessageRaw: their code   *)
(* is not part of the sources at hand; they are modelled from the          *)
(* specification's data model and wire formats.                            *)

HASH_SIZE == 32

\* The digest is an external primitive.  It is abstracted by a deterministic
\* function of the bytes with a HASH_SIZE-byte result.
\* the fold of bytes[lo..hi] into acc, one byte after the other, left to
\* right; the span is halved, and the left half is folded before the right
\* is entered, so that long inputs do not nest deeply
RECURSIVE HashSpan(_, _, _, _)
HashSpan(bytes, lo, hi, acc) ==
    IF lo > hi THEN acc
    ELSE IF lo = hi THEN (acc * 31 + bytes[lo] + 1) % 65521
    ELSE LET mid == (lo + hi) \div 2
             left == HashSpan(bytes, lo, mid, acc)
         IN  IF left < 0 THEN left ELSE HashSpan(bytes, mid + 1, hi, left)
HashFold(bytes, acc) == HashSpan(bytes, 1, Len(bytes), acc)
hash_bytes(bytes) ==
    LET h == HashFold(bytes, Len(bytes) + 7)
    IN  [i \in 1..HASH_SIZE |-> (h \div (1 + (i % 7)) + i) % 256]

\* Header: the fields the block codec uses (block_content_size,
\* block_content_hash) and chain_length, standing for the fields that are
\* only carried.  Wire form: u32 size, u32 chain length, the content hash.
HeaderSerialize(h) ==
    put_u32(h.block_content_size) \o put_u32(h.chain_length) \o h.block_content_hash
HEADER_SIZE == 4 + 4 + HASH_SIZE
\* read_from_raw::<Header>: the whole frame must be consumed
HeaderRead(raw) ==
    IF Len(raw) # HEADER_SIZE THEN [ok |-> FALSE, value |-> None]
    ELSE [ok |-> TRUE,
          value |-> Some([block_content_size |-> get_u32(raw, 0).value,
                          chain_length |-> get_u32(raw, 4).value,
                          block_content_hash |-> Drop(raw, 8)])]
\* Header::hash
HeaderHash(h) == hash_bytes(HeaderSerialize(h))

\* HeaderRaw and MessageRaw: u16 length, then that many bytes
RawSerialize(bytes) == put_u16(Len(bytes)) \o bytes
\* deserialize one raw frame from the front of `r`: [ok, raw, rest]
RawDeserialize(r) ==
    LET len == get_u16(r, 0)
    IN  IF ~len.ok \/ Len(r) - 2 < len.value
        THEN [ok |-> FALSE, raw |-> <<>>, rest |-> r]
        ELSE [ok |-> TRUE, raw |-> SubSeq(r, 3, 2 + len.value),
              rest |-> Drop(r, 2 + len.value)]
size_bytes_plus_size(raw) == 2 + Len(raw)

\* Message: a tag byte and an opaque body
MessageTags == {0, 1}
MessageToRaw(m) == <<m.tag>> \o m.body
MessageFromRaw(raw) ==
    IF raw = <<>> \/ raw[1] \notin MessageTags THEN [ok |-> FALSE, value |-> None]
    ELSE [ok |-> TRUE, value |-> Some([tag |-> raw[1], body |-> Tail(raw)])]

----------------------------------------------------------------------------
(* block/mod.rs: BlockContents, Block *)

\* BlockContents::compute_hash_size: the raw form of every message, in
\* order, in one buffer; its hash and its length (a usize)
ContentBytes(messages) ==
    Flatten([i \in 1..Len(messages) |-> RawSerialize(MessageToRaw(messages[i]))])
compute_hash_size(messages) ==
    LET bytes == ContentBytes(messages)
    IN  [hash |-> hash_bytes(bytes), size |-> Len(bytes)]

\* Block::is_consistent
is_consistent(b) ==
    LET hs == compute_hash_size(b.contents)
    IN  /\ hs.hash = b.header.block_content_hash
        /\ UsizeOfLen(hs.size) = U32AsUsize(b.header.block_content_size)

\* impl PartialEq for Block: equality of the header hashes
BlockEq(a, b) == HeaderHash(a.header) = HeaderHash(b.header)

\* faulty variants of Block::serialize: the messages written last to
\* first; a message count written after the header
BlockSerializeBytes_Reversed(b) ==
    RawSerialize(HeaderSerialize(b.header))
        \o ContentBytes([i \in 1..Len(b.contents) |-> b.contents[Len(b.contents) + 1 - i]])
BlockSerializeBytes_WithCount(b) ==
    RawSerialize(HeaderSerialize(b.header)) \o put_u8(Len(b.contents))
        \o ContentBytes(b.contents)

\* The bytes Block::serialize writes: the HeaderRaw of the serialized
\* header, then the raw form of every message in contents order.
BlockSerializeBytes(b) ==
    RawSerialize(HeaderSerialize(b.header)) \o ContentBytes(b.contents)

\* faulty variant of the loop condition: the loop is left one byte early
LoopContinues_OffByOne(remaining) == U32Gt(remaining, <<0, 1>>)
\* faulty variant of the subtraction: the length prefix is not counted
SubMessageSize_PayloadOnly(remaining, message_size) ==
    U32WrappingSub(remaining, AsU32(message_size - 2))

\* the loop condition of Block::deserialize
LoopContinues(remaining) == U32Gt(remaining, U32Zero)
\* `serialized_content_size -= message_size as u32` when it does not overflow
SubMessageSize(remaining, message_size) ==
    U32WrappingSub(remaining, AsU32(message_size))
\* whether that subtraction overflows the u32
SubOverflows(remaining, message_size) == U32Gt(AsU32(message_size), remaining)

\* the Block that deserialize returns once bpc = "ok"
Returned == [header |-> Unwrap(header), contents |-> contents]

----------------------------------------------------------------------------
(* Inputs of the block codec *)

ByteAlphabet == {0, 1, 2}
Tails == SeqsUpTo(ByteAlphabet, MaxTail)

MessageBodies == {<<>>, <<2>>}
Messages == {[tag |-> t, body |-> b] : t \in MessageTags, b \in MessageBodies}
ContentsSet == SeqsUpTo(Messages, MaxMessages)

ZeroHash == Repeat(0, HASH_SIZE)
HashChoices == {ZeroHash, hash_bytes(<<0, 1, 0>>)}
ChainLengths == {<<0, 0>>, <<0, 1>>}

\* impl Arbitrary for Block: size and hash set from compute_hash_size
ArbitraryBlocks ==
    {[header |-> [block_content_size |-> AsU32(compute_hash_size(c).size),
                  chain_length |-> cl,
                  block_content_hash |-> compute_hash_size(c).hash],
      contents |-> c] : c \in ContentsSet, cl \in ChainLengths}

\* headers whose declared size and hash are free
DeclaredSizes == {AsU32(n) : n \in 0..MaxDeclared} \cup {<<65535, 65535>>}
FreeHeaders ==
    {[block_content_size |-> sz, chain_length |-> <<0, 0>>, block_content_hash |-> hh] :
        sz \in DeclaredSizes, hh \in HashChoices}
Blocks ==
    ArbitraryBlocks \cup {[header |-> h, contents |-> c] : h \in FreeHeaders, c \in ContentsSet}

\* byte streams handed to Block::deserialize: a well-formed HeaderRaw
\* followed by any bytes, and a few streams whose HeaderRaw is broken
BrokenHeaderStreams ==
    { <<>>, <<0>>, <<0, 5, 1, 2>>, <<0, 2, 0, 0, 0, 1, 0>>,
      RawSerialize(HeaderSerialize([block_content_size |-> U32Zero,
                                    chain_length |-> U32Zero,
                                    block_content_hash |-> ZeroHash]) \o <<0>>) }
WireBlocks ==
    {RawSerialize(HeaderSerialize(h)) \o t : h \in FreeHeaders, t \in Tails}
        \cup BrokenHeaderStreams

----------------------------------------------------------------------------
(* Block::serialize and Block::deserialize as steps *)

BlockIdle ==
    /\ blk = None /\ writer = <<>> /\ reader = <<>> /\ header = None
    /\ serialized_content_size = U32Zero /\ contents = <<>>
    /\ wrapped = FALSE /\ bpc = "idle"

InitBlock ==
    /\ writer = <<>> /\ header = None /\ serialized_content_size = U32Zero
    /\ contents = <<>> /\ wrapped = FALSE
    /\ \/ \E b \in Blocks : blk = Some(b) /\ reader = <<>> /\ bpc = "new"
       \/ \E w \in WireBlocks : blk = None /\ reader = w /\ bpc = "wire"

\* Block::serialize
BlockSerialize ==
    /\ UNCHANGED nonBlockVars
    /\ bpc = "new"
    /\ writer' = BlockSerializeBytes(Unwrap(blk))
    /\ bpc' = "written"
    /\ UNCHANGED <<blk, reader, header, serialized_content_size, contents, wrapped>>

\* serialization_bijection: the bytes written are handed to deserialize
BlockBijectionFeed ==
    /\ UNCHANGED nonBlockVars
    /\ bpc = "written"
    /\ reader' = writer
    /\ bpc' = "wire"
    /\ UNCHANGED <<blk, writer, header, serialized_content_size, contents, wrapped>>

\* an Err return: the locals are dropped
BlockFail(rest) ==
    /\ bpc' = "err"
    /\ reader' = rest
    /\ header' = None /\ contents' = <<>>
    /\ UNCHANGED <<blk, writer, serialized_content_size, wrapped>>

\* Block::deserialize up to the loop: HeaderRaw, Header, the two locals
DeserializeHeader ==
    /\ UNCHANGED nonBlockVars
    /\ bpc = "wire"
    /\ LET raw == RawDeserialize(reader)
           hdr == HeaderRead(raw.raw)
       IN  \/ /\ ~raw.ok \/ ~hdr.ok
              /\ BlockFail(raw.rest)
           \/ /\ raw.ok /\ hdr.ok
              /\ header' = hdr.value
              /\ serialized_content_size' = Unwrap(hdr.value).block_content_size
              /\ contents' = <<>>
              /\ reader' = raw.rest
              /\ bpc' = "loop"
              /\ UNCHANGED <<blk, writer, wrapped>>

\* one iteration of the while loop
DeserializeMessage ==
    /\ UNCHANGED nonBlockVars
    /\ bpc = "loop"
    /\ LoopContinues(serialized_content_size)
    /\ LET message_raw == RawDeserialize(reader)
           message_size == size_bytes_plus_size(message_raw.raw)
           message == MessageFromRaw(message_raw.raw)
       IN  \/ /\ ~message_raw.ok \/ ~message.ok
              /\ BlockFail(message_raw.rest)
           \/ /\ message_raw.ok /\ message.ok
              /\ ~SubOverflows(serialized_content_size, message_size)
              /\ contents' = Append(contents, Unwrap(message.value))
              /\ serialized_content_size' =
                     SubMessageSize(serialized_content_size, message_size)
              /\ reader' = message_raw.rest
              /\ UNCHANGED <<blk, writer, header, wrapped, bpc>>
           \* the subtraction overflows: a build without overflow checks wraps
           \/ /\ message_raw.ok /\ message.ok
              /\ SubOverflows(serialized_content_size, message_size)
              /\ contents' = Append(contents, Unwrap(message.value))
              /\ serialized_content_size' =
                     SubMessageSize(serialized_content_size, message_size)
              /\ reader' = message_raw.rest
              /\ wrapped' = TRUE
              /\ UNCHANGED <<blk, writer, header, bpc>>
           \* ... and a build with overflow checks panics
           \/ /\ message_raw.ok /\ message.ok
              /\ SubOverflows(serialized_content_size, message_size)
              /\ bpc' = "panic"
              /\ reader' = message_raw.rest
              /\ header' = None /\ contents' = <<>>
              /\ UNCHANGED <<blk, writer, serialized_content_size, wrapped>>

\* the loop is left and Ok(Block { header, contents }) returned
DeserializeReturn ==
    /\ UNCHANGED nonBlockVars
    /\ bpc = "loop"
    /\ ~LoopContinues(serialized_content_size)
    /\ bpc' = "ok"
    /\ UNCHANGED <<blk, writer, reader, header, serialized_content_size, contents, wrapped>>

NextBlock ==
    \/ BlockSerialize
    \/ BlockBijectionFeed
    \/ DeserializeHeader
    \/ DeserializeMessage
    \/ DeserializeReturn

----------------------------------------------------------------------------
(* setting.rs: UpdateProposal *)

\* UpdateProposal::new
UpdateProposalNew ==
    [max_number_of_transactions_per_block |-> None,
     bootstrap_key_slots_percentage |-> None,
     consensus_version |-> None,
     bft_leaders |-> None,
     allow_account_creation |-> None,
     linear_fees |-> None,
     slot_duration |-> None,
     epoch_stability_depth |-> None]

\* enum UpdateTag
TagEnd == 0
TagMaxNumberOfTransactionsPerBlock == 1
TagBootstrapKeySlotsPercentage == 2
TagConsensusVersion == 3
TagBftLeaders == 4
TagAllowAccountCreation == 5
TagLinearFee == 6
TagSlotDuration == 7
TagEpochStabilityDepth == 8
\* UpdateTag::from_u16: is the u16 a variant of the enum
IsUpdateTag(tag) == tag \in TagEnd..TagEpochStabilityDepth

\* ConsensusVersion as u16 and ConsensusVersion::from_u16
ConsensusVersionAsU16(v) == IF v = "Bft" THEN 1 ELSE 2
ConsensusVersionFromU16(n) ==
    IF n = 1 THEN Some("Bft") ELSE IF n = 2 THEN Some("GenesisPraos") ELSE None

\* bft::LeaderId: a public key, written as its raw bytes
PUBLIC_KEY_SIZE == 32
LeaderIdSerialize(leader) == leader
\* `x as u8` of a usize
AsU8(n) == n % 256

\* read_vec(buf, n): n leader ids in a row
read_vec(data, off, n) ==
    IF Len(data) - off < n * PUBLIC_KEY_SIZE THEN NotEnough
    ELSE [ok |-> TRUE,
          value |-> [i \in 1..n |->
                        SubSeq(data, off + (i - 1) * PUBLIC_KEY_SIZE + 1,
                               off + i * PUBLIC_KEY_SIZE)],
          off |-> off + n * PUBLIC_KEY_SIZE]

\* faulty variant: the End tag is not written
SerializeEnd_Missing == <<>>
\* the End tag that closes the stream
SerializeEnd == put_u16(TagEnd)

\* the BftLeaders record
SerializeBftLeaders(leaders) ==
    put_u16(TagBftLeaders) \o put_u8(AsU8(Len(leaders)))
        \o FlattenFixed([i \in 1..Len(leaders) |-> LeaderIdSerialize(leaders[i])],
                        PUBLIC_KEY_SIZE)

\* faulty variant: the boolean is written inverted
SerializeAllowAccountCreation_Inverted(b) ==
    put_u16(TagAllowAccountCreation) \o put_u8(IF b THEN 0 ELSE 1)
\* the AllowAccountCreation and SlotDuration records
SerializeAllowAccountCreation(b) ==
    put_u16(TagAllowAccountCreation) \o put_u8(IF b THEN 1 ELSE 0)
SerializeSlotDuration(d) == put_u16(TagSlotDuration) \o put_u8(d)

\* the bytes UpdateProposal::serialize writes
UpdateProposalSerialize(p) ==
    (IF IsSome(p.max_number_of_transactions_per_block)
        THEN put_u16(TagMaxNumberOfTransactionsPerBlock)
                \o put_u32(Unwrap(p.max_number_of_transactions_per_block))
        ELSE <<>>)
    \o (IF IsSome(p.bootstrap_key_slots_percentage)
        THEN put_u16(TagBootstrapKeySlotsPercentage)
                \o put_u8(Unwrap(p.bootstrap_key_slots_percentage))
        ELSE <<>>)
    \o (IF IsSome(p.consensus_version)
        THEN put_u16(TagConsensusVersion)
                \o put_u16(ConsensusVersionAsU16(Unwrap(p.consensus_version)))
        ELSE <<>>)
    \o (IF IsSome(p.bft_leaders)
        THEN SerializeBftLeaders(Unwrap(p.bft_leaders))
        ELSE <<>>)
    \o (IF IsSome(p.allow_account_creation)
        THEN SerializeAllowAccountCreation(Unwrap(p.allow_account_creation))
        ELSE <<>>)
    \o (IF IsSome(p.linear_fees)
        THEN put_u16(TagLinearFee)
                \o put_u64(Unwrap(p.linear_fees).constant)
                \o put_u64(Unwrap(p.linear_fees).coefficient)
                \o put_u64(Unwrap(p.linear_fees).certificate)
        ELSE <<>>)
    \o (IF IsSome(p.slot_duration)
        THEN SerializeSlotDuration(Unwrap(p.slot_duration))
        ELSE <<>>)
    \o (IF IsSome(p.epoch_stability_depth)
        THEN put_u16(TagEpochStabilityDepth) \o put_u32(Unwrap(p.epoch_stability_depth))
        ELSE <<>>)
    \o SerializeEnd

\* outcomes of one iteration of the loop of UpdateProposal::read
ReadMore(upd, off) == [kind |-> "more", err |-> "", update |-> upd, off |-> off]
ReadDone(upd, off) == [kind |-> "ok", err |-> "", update |-> upd, off |-> off]
ReadErr(e, off) == [kind |-> "err", err |-> e, update |-> UpdateProposalNew, off |-> off]
ReadPanic(off) == [kind |-> "panic", err |-> "", update |-> UpdateProposalNew, off |-> off]

\* the `None` arm of the match on UpdateTag::from_u16(tag)
UnknownTagArm(off) == ReadPanic(off)

\* faulty variant: the first occurrence of a tag is kept
Overwrite_KeepFirst(old, new) == IF IsSome(old) THEN old ELSE Some(new)
\* the value kept for a field whose tag is met again
Overwrite(old, new) == Some(new)

\* the AllowAccountCreation arm: any non-zero byte is true
ReadAllowAccountCreation(byte) == byte # 0

\* one iteration: a tag, then the arm of the match it selects
ReadRecord(data, off, upd) ==
    LET tag == get_u16(data, off)
    IN  IF ~tag.ok THEN ReadErr("NotEnough", off)
        ELSE IF ~IsUpdateTag(tag.value) THEN UnknownTagArm(tag.off)
        ELSE CASE tag.value = TagEnd -> ReadDone(upd, tag.off)
          [] tag.value = TagMaxNumberOfTransactionsPerBlock ->
                LET v == get_u32(data, tag.off)
                IN  IF ~v.ok THEN ReadErr("NotEnough", tag.off)
                    ELSE ReadMore([upd EXCEPT !.max_number_of_transactions_per_block =
                                      Overwrite(@, v.value)], v.off)
          [] tag.value = TagBootstrapKeySlotsPercentage ->
                LET v == get_u8(data, tag.off)
                IN  IF ~v.ok THEN ReadErr("NotEnough", tag.off)
                    ELSE ReadMore([upd EXCEPT !.bootstrap_key_slots_percentage =
                                      Overwrite(@, v.value)], v.off)
          [] tag.value = TagConsensusVersion ->
                LET version_u16 == get_u16(data, tag.off)
                    version == ConsensusVersionFromU16(version_u16.value)
                IN  IF ~version_u16.ok THEN ReadErr("NotEnough", tag.off)
                    ELSE IF ~IsSome(version) THEN ReadErr("StructureInvalid", version_u16.off)
                    ELSE ReadMore([upd EXCEPT !.consensus_version =
                                      Overwrite(@, Unwrap(version))], version_u16.off)
          [] tag.value = TagBftLeaders ->
                LET len == get_u8(data, tag.off)
                    leaders == read_vec(data, len.off, len.value)
                IN  IF ~len.ok THEN ReadErr("NotEnough", tag.off)
                    ELSE IF ~leaders.ok THEN ReadErr("NotEnough", len.off)
                    ELSE ReadMore([upd EXCEPT !.bft_leaders =
                                      Overwrite(@, leaders.value)], leaders.off)
          [] tag.value = TagAllowAccountCreation ->
                LET v == get_u8(data, tag.off)
                IN  IF ~v.ok THEN ReadErr("NotEnough", tag.off)
                    ELSE ReadMore([upd EXCEPT !.allow_account_creation =
                                      Overwrite(@, ReadAllowAccountCreation(v.value))], v.off)
          [] tag.value = TagLinearFee ->
                LET constant == get_u64(data, tag.off)
                    coefficient == get_u64(data, constant.off)
                    certificate == get_u64(data, coefficient.off)
                IN  IF ~constant.ok THEN ReadErr("NotEnough", tag.off)
                    ELSE IF ~coefficient.ok THEN ReadErr("NotEnough", constant.off)
                    ELSE IF ~certificate.ok THEN ReadErr("NotEnough", coefficient.off)
                    ELSE ReadMore([upd EXCEPT !.linear_fees =
                                      Overwrite(@, [constant |-> constant.value,
                                                    coefficient |-> coefficient.value,
                                                    certificate |-> certificate.value])],
                                  certificate.off)
          [] tag.value = TagSlotDuration ->
                LET v == get_u8(data, tag.off)
                IN  IF ~v.ok THEN ReadErr("NotEnough", tag.off)
                    ELSE ReadMore([upd EXCEPT !.slot_duration = Overwrite(@, v.value)], v.off)
          [] tag.value = TagEpochStabilityDepth ->
                LET v == get_u32(data, tag.off)
                IN  IF ~v.ok THEN ReadErr("NotEnough", tag.off)
                    ELSE ReadMore([upd EXCEPT !.epoch_stability_depth =
                                      Overwrite(@, v.value)], v.off)

----------------------------------------------------------------------------
(* Inputs of the update codec *)

Leader0 == Repeat(0, PUBLIC_KEY_SIZE)
Leader7 == Repeat(7, PUBLIC_KEY_SIZE)
SomeFee == [constant |-> <<0, 0, 0, 1>>, coefficient |-> <<0, 0, 1, 2>>,
            certificate |-> <<65535, 65535, 65535, 65535>>]

\* proposals handed to serialize: every combination of present and absent
\* fields, and leader lists around the u8 limit of the count byte
SmallProposals ==
    [max_number_of_transactions_per_block : {None, Some(<<65535, 65535>>)},
     bootstrap_key_slots_percentage : {None, Some(100)},
     consensus_version : {None, Some("Bft"), Some("GenesisPraos")},
     bft_leaders : {None, Some(<<>>), Some(<<Leader7>>), Some(<<Leader0, Leader7>>)},
     allow_account_creation : {None, Some(TRUE), Some(FALSE)},
     linear_fees : {None, Some(SomeFee)},
     slot_duration : {None, Some(7)},
     epoch_stability_depth : {None, Some(<<0, 10>>)}]
LongLeaderLists == {Repeat(Leader7, 255), Repeat(Leader0, 256), Repeat(Leader7, 256)}
LongProposals ==
    {[UpdateProposalNew EXCEPT !.bft_leaders = Some(l), !.slot_duration = d] :
        l \in LongLeaderLists, d \in {None, Some(7)}}
Proposals == SmallProposals \cup LongProposals

\* well-formed records of a wire input: the bytes, the tag, and the
\* field the record sets (`sets` has that one field present)
Rec(tag, payload, field, value) ==
    [tag |-> tag, bytes |-> put_u16(tag) \o payload,
     sets |-> [UpdateProposalNew EXCEPT ![field] = Some(value)]]
RecordChoices ==
    { Rec(1, <<0, 0, 0, 1>>, "max_number_of_transactions_per_block", <<0, 1>>),
      Rec(1, <<255, 255, 255, 255>>, "max_number_of_transactions_per_block", <<65535, 65535>>),
      Rec(2, <<100>>, "bootstrap_key_slots_percentage", 100),
      Rec(3, <<0, 1>>, "consensus_version", "Bft"),
      Rec(3, <<0, 2>>, "consensus_version", "GenesisPraos"),
      Rec(4, <<0>>, "bft_leaders", <<>>),
      Rec(4, <<1>> \o Leader7, "bft_leaders", <<Leader7>>),
      Rec(5, <<0>>, "allow_account_creation", FALSE),
      Rec(5, <<1>>, "allow_account_creation", TRUE),
      Rec(5, <<2>>, "allow_account_creation", TRUE),
      Rec(6, <<0, 0, 0, 0, 0, 0, 0, 1,  0, 0, 0, 0, 0, 1, 0, 2,
               255, 255, 255, 255, 255, 255, 255, 255>>, "linear_fees", SomeFee),
      Rec(7, <<7>>, "slot_duration", 7),
      Rec(7, <<8>>, "slot_duration", 8),
      Rec(8, <<0, 0, 0, 10>>, "epoch_stability_depth", <<0, 10>>) }
\* what follows the records: the End tag, or an end that read must refuse
EndOnly == <<0, 0>>
Terminators ==
    { EndOnly, <<0, 0, 5>>, <<>>, <<0>>, <<0, 9>>, <<1, 0>>, <<0, 3, 0, 3>>,
      <<0, 1, 0, 0>>, <<0, 4, 1, 7, 7>>, <<0, 6, 0, 0, 0, 0, 0, 0, 0, 1, 0>> }
WireOf(recs, term) == Flatten([i \in 1..Len(recs) |-> recs[i].bytes]) \o term

----------------------------------------------------------------------------
(* UpdateProposal::serialize and UpdateProposal::read as steps *)

UpdateIdle ==
    /\ proposal = None /\ codec = <<>> /\ records = <<>>
    /\ buf = [data |-> <<>>, offset |-> 0]
    /\ update = UpdateProposalNew /\ uerr = "" /\ upc = "idle"

InitUpdate ==
    /\ codec = <<>> /\ update = UpdateProposalNew /\ uerr = ""
    /\ \/ \E p \in Proposals :
            /\ proposal = Some(p) /\ records = <<>>
            /\ buf = [data |-> <<>>, offset |-> 0] /\ upc = "new"
       \/ \E recs \in SeqsUpTo(RecordChoices, MaxRecords), term \in Terminators :
            /\ proposal = None /\ records = recs
            /\ buf = [data |-> WireOf(recs, term), offset |-> 0] /\ upc = "reading"

\* UpdateProposal::serialize
UpdateSerialize ==
    /\ UNCHANGED nonUpdateVars
    /\ upc = "new"
    /\ codec' = UpdateProposalSerialize(Unwrap(proposal))
    /\ upc' = "written"
    /\ UNCHANGED <<proposal, records, buf, update, uerr>>

\* serialization_bijection: the bytes written are handed to read
UpdateBijectionFeed ==
    /\ UNCHANGED nonUpdateVars
    /\ upc = "written"
    /\ buf' = [data |-> codec, offset |-> 0]
    /\ update' = UpdateProposalNew
    /\ upc' = "reading"
    /\ UNCHANGED <<proposal, codec, records, uerr>>

\* one iteration of the loop of UpdateProposal::read
UpdateRead ==
    /\ UNCHANGED nonUpdateVars
    /\ upc = "reading"
    /\ LET r == ReadRecord(buf.data, buf.offset, update)
       IN  /\ update' = r.update
           /\ buf' = [buf EXCEPT !.offset = r.off]
           /\ uerr' = r.err
           /\ upc' = IF r.kind = "more" THEN "reading" ELSE r.kind
    /\ UNCHANGED <<proposal, codec, records>>

NextUpdate ==
    \/ UpdateSerialize
    \/ UpdateBijectionFeed
    \/ UpdateRead

----------------------------------------------------------------------------
(* setting.rs: Settings *)

SLOTS_PERCENTAGE_RANGE == 100

\* Settings::new
SettingsNew ==
    [max_number_of_transactions_per_block |-> <<0, 100>>,
     bootstrap_key_slots_percentage |-> SLOTS_PERCENTAGE_RANGE,
     consensus_version |-> "Bft",
     bft_leaders |-> <<>>,
     allow_account_creation |-> FALSE,
     linear_fees |-> [constant |-> <<0, 0, 0, 0>>, coefficient |-> <<0, 0, 0, 0>>,
                      certificate |-> <<0, 0, 0, 0>>],
     slot_duration |-> 10,
     epoch_stability_depth |-> <<0, 0, 0, 10>>]

\* faulty variant: the new state starts from Settings::new() instead of self
SettingsApply_FromNew(self, upd) ==
    LET n0 == SettingsNew
        n1 == IF IsSome(upd.max_number_of_transactions_per_block)
              THEN [n0 EXCEPT !.max_number_of_transactions_per_block =
                                  Unwrap(upd.max_number_of_transactions_per_block)]
              ELSE n0
        n2 == IF IsSome(upd.bootstrap_key_slots_percentage)
              THEN [n1 EXCEPT !.bootstrap_key_slots_percentage =
                                  Unwrap(upd.bootstrap_key_slots_percentage)]
              ELSE n1
        n3 == IF IsSome(upd.consensus_version)
              THEN [n2 EXCEPT !.consensus_version = Unwrap(upd.consensus_version)]
              ELSE n2
        n4 == IF IsSome(upd.bft_leaders)
              THEN [n3 EXCEPT !.bft_leaders = Unwrap(upd.bft_leaders)]
              ELSE n3
        n5 == IF IsSome(upd.allow_account_creation)
              THEN [n4 EXCEPT !.allow_account_creation = Unwrap(upd.allow_account_creation)]
              ELSE n4
        n6 == IF IsSome(upd.linear_fees)
              THEN [n5 EXCEPT !.linear_fees = Unwrap(upd.linear_fees)]
              ELSE n5
        n7 == IF IsSome(upd.slot_duration)
              THEN [n6 EXCEPT !.slot_duration = Unwrap(upd.slot_duration)]
              ELSE n6
        n8 == IF IsSome(upd.epoch_stability_depth)
              THEN [n7 EXCEPT !.epoch_stability_depth =
                                  U32AsUsize(Unwrap(upd.epoch_stability_depth))]
              ELSE n7
    IN  n8
\* Settings::apply: `new_state` is a clone of self, and one `if let Some`
\* after the other overwrites a field of it
SettingsApply(self, upd) ==
    LET n0 == self
        n1 == IF IsSome(upd.max_number_of_transactions_per_block)
              THEN [n0 EXCEPT !.max_number_of_transactions_per_block =
                                  Unwrap(upd.max_number_of_transactions_per_block)]
              ELSE n0
        n2 == IF IsSome(upd.bootstrap_key_slots_percentage)
              THEN [n1 EXCEPT !.bootstrap_key_slots_percentage =
                                  Unwrap(upd.bootstrap_key_slots_percentage)]
              ELSE n1
        n3 == IF IsSome(upd.consensus_version)
              THEN [n2 EXCEPT !.consensus_version = Unwrap(upd.consensus_version)]
              ELSE n2
        n4 == IF IsSome(upd.bft_leaders)
              THEN [n3 EXCEPT !.bft_leaders = Unwrap(upd.bft_leaders)]
              ELSE n3
        n5 == IF IsSome(upd.allow_account_creation)
              THEN [n4 EXCEPT !.allow_account_creation = Unwrap(upd.allow_account_creation)]
              ELSE n4
        n6 == IF IsSome(upd.linear_fees)
              THEN [n5 EXCEPT !.linear_fees = Unwrap(upd.linear_fees)]
              ELSE n5
        n7 == IF IsSome(upd.slot_duration)
              THEN [n6 EXCEPT !.slot_duration = Unwrap(upd.slot_duration)]
              ELSE n6
        n8 == IF IsSome(upd.epoch_stability_depth)
              THEN [n7 EXCEPT !.epoch_stability_depth =
                                  U32AsUsize(Unwrap(upd.epoch_stability_depth))]
              ELSE n7
    IN  n8

\* settings apply is called on: the initial ones, and two that differ from
\* them in every field
OtherSettings ==
    [max_number_of_transactions_per_block |-> <<1, 0>>,
     bootstrap_key_slots_percentage |-> 20,
     consensus_version |-> "GenesisPraos",
     bft_leaders |-> <<Leader0>>,
     allow_account_creation |-> TRUE,
     linear_fees |-> [constant |-> <<0, 0, 0, 5>>, coefficient |-> <<0, 0, 0, 3>>,
                      certificate |-> <<0, 0, 0, 2>>],
     slot_duration |-> 7,
     epoch_stability_depth |-> <<0, 1, 0, 0>>]
SettingsSet ==
    { SettingsNew, OtherSettings,
      [OtherSettings EXCEPT !.bft_leaders = <<Leader0, Leader7>>,
                            !.slot_duration = 20,
                            !.epoch_stability_depth = <<0, 0, 0, 10>>] }

SettingsIdle ==
    /\ settings = SettingsNew /\ sproposal = UpdateProposalNew
    /\ new_state = None /\ spc = "idle"

InitSettings ==
    /\ settings \in SettingsSet
    /\ sproposal \in SmallProposals
    /\ new_state = None
    /\ spc = "call"

\* let next = settings.apply(&update)
ApplyUpdate ==
    /\ UNCHANGED nonSettingsVars
    /\ spc = "call"
    /\ new_state' = Some(SettingsApply(settings, sproposal))
    /\ spc' = "returned"
    /\ UNCHANGED <<settings, sproposal>>

NextSettings ==
    \/ ApplyUpdate

----------------------------------------------------------------------------
(* transaction/witness.rs *)

\* The signature scheme (chain_crypto) is an external primitive.  A secret
\* key is a number, its public key is [of |-> key], and a signature records
\* the public key of its signer and the bytes it signed: verification
\* succeeds for exactly that key and those bytes.
SecretKeys == 1..3
ToPublic(sk) == [of |-> sk]
SignatureGenerate(sk, msg) == [signer |-> ToPublic(sk), msg |-> msg]
SignatureVerify(sig, pk, msg) ==
    IF sig.signer = pk /\ sig.msg = msg THEN "Success" ELSE "Failed"

WITNESS_TAG_OLDUTXO == 0
WITNESS_TAG_UTXO == 1
WITNESS_TAG_ACCOUNT == 2

\* enum Witness
WitnessUtxo(sig) == [variant |-> "Utxo", sig |-> sig, xpub |-> None]
WitnessAccount(sig) == [variant |-> "Account", sig |-> sig, xpub |-> None]
WitnessOldUtxo(xpub, sig) == [variant |-> "OldUtxo", sig |-> sig, xpub |-> Some(xpub)]

\* `v[i] = x` on a Vec (IndexMut): panics when i is not below v.len()
VecIndexAssign(v, i, x) ==
    IF i < Len(v)
    THEN [panic |-> FALSE, v |-> [v EXCEPT ![i + 1] = x]]
    ELSE [panic |-> TRUE, v |-> v]
\* SpendingCounter::to_bytes: the u32, big-endian
SpendingCounterToBytes(c) == put_u32(c)

\* TransactionIdSpendingCounter::new: [panic, v]
TransactionIdSpendingCounterNew(txid, counter) ==
    LET v0 == <<>>
        v1 == VecIndexAssign(v0, 0, WITNESS_TAG_ACCOUNT)
    IN  IF v1.panic THEN v1
        ELSE [panic |-> FALSE, v |-> v1.v \o txid \o SpendingCounterToBytes(counter)]

\* faulty variant: the signature is wrapped as an Account witness
WitnessNewUtxo_AsAccount(txid, sk) == WitnessAccount(SignatureGenerate(sk, txid))
\* Witness::new_utxo
WitnessNewUtxo(txid, sk) == WitnessUtxo(SignatureGenerate(sk, txid))

\* Witness::verify_utxo: the Verification, or "panic" for unimplemented!()
WitnessVerifyUtxo(w, pk, txid) ==
    CASE w.variant = "OldUtxo" -> "panic"
      [] w.variant = "Utxo" -> SignatureVerify(w.sig, pk, txid)
      [] w.variant = "Account" -> "Failed"

\* inputs
TransactionIds == {Repeat(0, HASH_SIZE), Repeat(1, HASH_SIZE), Repeat(255, HASH_SIZE)}
SpendingCounters == {<<0, 0>>, <<0, 1>>, <<1, 2>>, <<65535, 65535>>}
PublicKeys == {ToPublic(sk) : sk \in SecretKeys}
Signatures == {SignatureGenerate(sk, txid) : sk \in SecretKeys, txid \in TransactionIds}
\* witnesses as they come off the wire
WireWitnesses ==
    {WitnessUtxo(sig) : sig \in Signatures}
      \cup {WitnessAccount(sig) : sig \in {SignatureGenerate(1, Repeat(0, HASH_SIZE)),
                                            SignatureGenerate(2, <<2>> \o Repeat(1, HASH_SIZE)
                                                                     \o <<0, 0, 0, 1>>)}}
      \cup {WitnessOldUtxo(ToPublic(sk), SignatureGenerate(sk, Repeat(1, HASH_SIZE))) :
                sk \in {1, 2}}

WitnessIdle ==
    /\ wop = "" /\ transaction_id = Repeat(0, HASH_SIZE) /\ spending_counter = U32Zero
    /\ secret_key = None /\ public_key = ToPublic(1) /\ witness = None
    /\ preimage = None /\ verification = "" /\ wpc = "idle"

InitWitness ==
    /\ transaction_id \in TransactionIds
    /\ preimage = None /\ verification = "" /\ wpc = "call"
    /\ \/ /\ wop = "tidsc"
          /\ spending_counter \in SpendingCounters
          /\ secret_key = None /\ public_key = ToPublic(1) /\ witness = None
       \/ /\ wop = "account"
          /\ spending_counter \in SpendingCounters
          /\ secret_key \in {Some(sk) : sk \in SecretKeys}
          /\ public_key = ToPublic(1) /\ witness = None
       \/ /\ wop = "own_tx"
          /\ spending_counter = U32Zero
          /\ secret_key \in {Some(sk) : sk \in SecretKeys}
          /\ public_key \in PublicKeys /\ witness = None
       \/ /\ wop = "verify"
          /\ spending_counter = U32Zero
          /\ secret_key = None
          /\ public_key \in PublicKeys /\ witness \in {Some(w) : w \in WireWitnesses}

\* TransactionIdSpendingCounter::new(&transaction_id, &spending_counter)
TidscNew ==
    /\ UNCHANGED nonWitnessVars
    /\ wop = "tidsc" /\ wpc = "call"
    /\ LET r == TransactionIdSpendingCounterNew(transaction_id, spending_counter)
       IN  /\ preimage' = IF r.panic THEN None ELSE Some(r.v)
           /\ wpc' = IF r.panic THEN "panic" ELSE "done"
    /\ UNCHANGED <<wop, transaction_id, spending_counter, secret_key, public_key,
                   witness, verification>>

\* Witness::new_account: the preimage is built, then signed
NewAccount ==
    /\ UNCHANGED nonWitnessVars
    /\ wop = "account" /\ wpc = "call"
    /\ LET r == TransactionIdSpendingCounterNew(transaction_id, spending_counter)
       IN  /\ preimage' = IF r.panic THEN None ELSE Some(r.v)
           /\ witness' = IF r.panic THEN None
                         ELSE Some(WitnessAccount(SignatureGenerate(Unwrap(secret_key), r.v)))
           /\ wpc' = IF r.panic THEN "panic" ELSE "done"
    /\ UNCHANGED <<wop, transaction_id, spending_counter, secret_key, public_key,
                   verification>>

\* Witness::new_utxo(&transaction_id, &secret_key)
NewUtxo ==
    /\ UNCHANGED nonWitnessVars
    /\ wop = "own_tx" /\ wpc = "call"
    /\ witness' = Some(WitnessNewUtxo(transaction_id, Unwrap(secret_key)))
    /\ wpc' = "made"
    /\ UNCHANGED <<wop, transaction_id, spending_counter, secret_key, public_key,
                   preimage, verification>>

\* witness.verify_utxo(&public_key, &transaction_id)
VerifyUtxo ==
    /\ UNCHANGED nonWitnessVars
    /\ \/ wop = "own_tx" /\ wpc = "made"
       \/ wop = "verify" /\ wpc = "call"
    /\ LET r == WitnessVerifyUtxo(Unwrap(witness), public_key, transaction_id)
       IN  /\ verification' = IF r = "panic" THEN "" ELSE r
           /\ wpc' = IF r = "panic" THEN "panic" ELSE "done"
    /\ UNCHANGED <<wop, transaction_id, spending_counter, secret_key, public_key,
                   witness, preimage>>

NextWitness ==
    \/ TidscNew
    \/ NewAccount
    \/ NewUtxo
    \/ VerifyUtxo

----------------------------------------------------------------------------
(* wallet-crypto hdpayload.rs *)

\* b"serokellfore"
NONCE == <<115, 101, 114, 111, 107, 101, 108, 108, 102, 111, 114, 101>>
TAG_LEN == 16
HDKEY_SIZE == 32

\* ChaCha20Poly1305 (rcw) is an external primitive.  It is abstracted by a
\* stream cipher whose key stream depends on key, nonce and position, and a
\* TAG_LEN-byte tag that is a digest of the ciphertext mixed with key and
\* nonce; decrypt checks the tag before it returns the plaintext.
KeyStream(key, nonce, i) ==
    (key[((i - 1) % Len(key)) + 1] + nonce[((i - 1) % Len(nonce)) + 1] + 7 * i) % 256
AeadTag(key, nonce, ct) ==
    LET digest == hash_bytes(ct)
    IN  [j \in 1..TAG_LEN |->
            (digest[j] + key[((j - 1) % Len(key)) + 1] * 3
                + nonce[((j - 1) % Len(nonce)) + 1]) % 256]
AeadEncrypt(key, nonce, pt) ==
    LET ct == [i \in 1..Len(pt) |-> (pt[i] + KeyStream(key, nonce, i)) % 256]
    IN  [out |-> ct, tag |-> AeadTag(key, nonce, ct)]
AeadDecrypt(key, nonce, ct, tag) ==
    IF tag = AeadTag(key, nonce, ct)
    THEN [ok |-> TRUE,
          out |-> [i \in 1..Len(ct) |-> (ct[i] + 256 - KeyStream(key, nonce, i)) % 256]]
    ELSE [ok |-> FALSE, out |-> <<>>]

\* raw_cbor: an unsigned integer (major type 0) in its shortest form, and an
\* indefinite-length array: 0x9f, the items, 0xff
CborUnsigned(x) ==
    IF x[1] = 0 /\ x[2] < 24 THEN <<x[2]>>
    ELSE IF x[1] = 0 /\ x[2] < 256 THEN <<24, x[2]>>
    ELSE IF x[1] = 0 THEN <<25>> \o put_u16(x[2])
    ELSE <<26>> \o put_u32(x)
CborReadUnsigned(data, off) ==
    IF Len(data) - off < 1 THEN NotEnough
    ELSE LET b == data[off + 1]
         IN  IF b < 24 THEN [ok |-> TRUE, value |-> <<0, b>>, off |-> off + 1]
             ELSE IF b = 24 THEN
                    IF Len(data) - off < 2 THEN NotEnough
                    ELSE [ok |-> TRUE, value |-> <<0, data[off + 2]>>, off |-> off + 2]
             ELSE IF b = 25 THEN
                    LET v == get_u16(data, off + 1)
                    IN  IF ~v.ok THEN NotEnough
                        ELSE [ok |-> TRUE, value |-> <<0, v.value>>, off |-> v.off]
             ELSE IF b = 26 THEN get_u32(data, off + 1)
             ELSE NotEnough
RECURSIVE CborReadItems(_, _, _)
CborReadItems(data, off, acc) ==
    IF Len(data) - off < 1 THEN None
    ELSE IF data[off + 1] = 255 THEN Some(acc)
    ELSE LET v == CborReadUnsigned(data, off)
         IN  IF ~v.ok THEN None ELSE CborReadItems(data, v.off, Append(acc, v.value))

\* Path::cbor
PathCbor(path) ==
    <<159>> \o Flatten([i \in 1..Len(path) |-> CborUnsigned(path[i])]) \o <<255>>
\* Path::from_cbor(bytes).ok()
PathFromCbor(bytes) ==
    IF Len(bytes) < 1 \/ bytes[1] # 159 THEN None
    ELSE CborReadItems(bytes, 1, <<>>)

\* faulty variant: the tag is not appended to the output
HDKeyEncrypt_NoTag(key, input) ==
    LET len == Len(input)
        r == AeadEncrypt(key, NONCE, input)
    IN  r.out
\* HDKey::encrypt: `out` is len bytes of ciphertext, then the tag
HDKeyEncrypt(key, input) ==
    LET len == Len(input)
        r == AeadEncrypt(key, NONCE, input)
    IN  r.out \o r.tag

\* a - b on usize.  When a < b the subtraction overflows: a build with
\* overflow checks panics, a build without wraps to usize::MAX - (b - a - 1)
UsizeSub(a, b) ==
    IF a >= b
    THEN {[panic |-> FALSE, wrapped |-> FALSE, value |-> a - b]}
    ELSE {[panic |-> TRUE, wrapped |-> FALSE, value |-> 0],
          [panic |-> FALSE, wrapped |-> TRUE, value |-> b - a - 1]}

DecPanic == [kind |-> "panic", out |-> None]
DecAlloc == [kind |-> "alloc", out |-> None]
DecReturn(o) == [kind |-> "done", out |-> o]

\* faulty variant: the length guard is `len <= 1`
HDKeyDecrypt_GuardAtOne(key, input) ==
    { IF sub.panic THEN DecPanic
      ELSE IF sub.wrapped THEN DecAlloc
      ELSE LET len == sub.value
               r == AeadDecrypt(key, NONCE, Take(input, len), Drop(input, len))
           IN  IF len <= 1 THEN DecReturn(None)
               ELSE IF r.ok THEN DecReturn(Some(r.out))
               ELSE DecReturn(None)
      : sub \in UsizeSub(Len(input), TAG_LEN) }
\* HDKey::decrypt: the outcomes a build can produce.  A wrapped `len` is
\* near usize::MAX, passes the `len <= 0` guard, and `collect()` is asked
\* for a Vec of that many bytes.
HDKeyDecrypt(key, input) ==
    { IF sub.panic THEN DecPanic
      ELSE IF sub.wrapped THEN DecAlloc
      ELSE LET len == sub.value
               r == AeadDecrypt(key, NONCE, Take(input, len), Drop(input, len))
           IN  IF len <= 0 THEN DecReturn(None)
               ELSE IF r.ok THEN DecReturn(Some(r.out))
               ELSE DecReturn(None)
      : sub \in UsizeSub(Len(input), TAG_LEN) }

\* inputs
HDKeys == {Repeat(0, HDKEY_SIZE), Repeat(7, HDKEY_SIZE)}
PathIndices ==
    {<<0, 0>>, <<0, 1>>, <<0, 23>>, <<0, 24>>, <<0, 255>>, <<0, 256>>, <<0, 65535>>,
     <<1, 0>>, <<32768, 0>>, <<65535, 65535>>}
Paths == SeqsUpTo(PathIndices, MaxPath)
Plaintexts == SeqsUpTo({0, 42, 255}, MaxPlain) \cup {Repeat(42, 256)}
\* inputs of decrypt: every length from 0 to TAG_LEN + 2, outputs of encrypt
\* under either key, and an output of encrypt with one byte changed
DecryptInputs ==
    {Repeat(b, n) : b \in {0, 255}, n \in 0..(TAG_LEN + 2)}
      \cup {HDKeyEncrypt(k, pt) : k \in HDKeys, pt \in {<<>>, <<42>>, <<159, 0, 1, 255>>}}
      \cup {[HDKeyEncrypt(k, <<159, 0, 1, 255>>) EXCEPT ![2] = (@ + 1) % 256] : k \in HDKeys}

HdIdle ==
    /\ hop = "" /\ hdkey = Repeat(0, HDKEY_SIZE) /\ hd_path = None /\ hd_input = <<>>
    /\ hd_payload = <<>> /\ hd_out = None /\ hd_path_out = None /\ hpc = "idle"

InitHd ==
    /\ hdkey \in HDKeys
    /\ hd_out = None /\ hd_path_out = None /\ hpc = "call"
    /\ \/ /\ hop = "path"
          /\ hd_path \in {Some(p) : p \in Paths}
          /\ hd_input = <<>> /\ hd_payload = <<>>
       \/ /\ hop = "bytes"
          /\ hd_path = None
          /\ hd_input \in Plaintexts /\ hd_payload = <<>>
       \/ /\ hop = "decrypt"
          /\ hd_path = None
          /\ hd_input = <<>> /\ hd_payload \in DecryptInputs

\* hdkey.encrypt(&input)
Encrypt ==
    /\ UNCHANGED nonHdVars
    /\ hop = "bytes" /\ hpc = "call"
    /\ hd_payload' = HDKeyEncrypt(hdkey, hd_input)
    /\ hpc' = "encrypted"
    /\ UNCHANGED <<hop, hdkey, hd_path, hd_input, hd_out, hd_path_out>>

\* hdkey.decrypt(&payload)
Decrypt ==
    /\ UNCHANGED nonHdVars
    /\ \/ hop = "bytes" /\ hpc = "encrypted"
       \/ hop = "decrypt" /\ hpc = "call"
    /\ \E r \in HDKeyDecrypt(hdkey, hd_payload) :
          /\ hd_out' = r.out
          /\ hpc' = r.kind
    /\ UNCHANGED <<hop, hdkey, hd_path, hd_input, hd_payload, hd_path_out>>

\* hdkey.encrypt_path(&path)
EncryptPath ==
    /\ UNCHANGED nonHdVars
    /\ hop = "path" /\ hpc = "call"
    /\ hd_input' = PathCbor(Unwrap(hd_path))
    /\ hd_payload' = HDKeyEncrypt(hdkey, PathCbor(Unwrap(hd_path)))
    /\ hpc' = "encrypted"
    /\ UNCHANGED <<hop, hdkey, hd_path, hd_out, hd_path_out>>

\* hdkey.decrypt_path(&payload): decrypt, `?`, then Path::from_cbor
DecryptPath ==
    /\ UNCHANGED nonHdVars
    /\ hop = "path" /\ hpc = "encrypted"
    /\ \E r \in HDKeyDecrypt(hdkey, hd_payload) :
          /\ hd_out' = r.out
          /\ hd_path_out' = IF r.kind = "done" /\ IsSome(r.out)
                            THEN PathFromCbor(Unwrap(r.out))
                            ELSE None
          /\ hpc' = r.kind
    /\ UNCHANGED <<hop, hdkey, hd_path, hd_input, hd_payload>>

NextHd ==
    \/ Encrypt
    \/ Decrypt
    \/ EncryptPath
    \/ DecryptPath

----------------------------------------------------------------------------
(* stake/role.rs: StakePoolInfo *)

\* a u128 is eight u16 limbs, most significant first
\* u128::to_be_bytes
U128ToBeBytes(x) == FlattenFixed([i \in 1..8 |-> put_u16(x[i])], 2)
\* Codec::put_u128
put_u128(x) == U128ToBeBytes(x)
\* serialize_public_key, and PublicKey::as_ref: the raw bytes of the key
serialize_public_key(key) == key

\* faulty variant: the VRF key is hashed before the KES key
StakePoolInfoIdPreimage_VrfFirst(pool) ==
    U128ToBeBytes(pool.serial)
        \o FlattenFixed([i \in 1..Len(pool.owners) |-> pool.owners[i]], PUBLIC_KEY_SIZE)
        \o pool.initial_key.vrf_public_key
        \o pool.initial_key.kes_public_key
\* the `v` of StakePoolInfo::to_id
StakePoolInfoIdPreimage(pool) ==
    U128ToBeBytes(pool.serial)
        \o FlattenFixed([i \in 1..Len(pool.owners) |-> pool.owners[i]], PUBLIC_KEY_SIZE)
        \o pool.initial_key.kes_public_key
        \o pool.initial_key.vrf_public_key
\* StakePoolInfo::to_id
StakePoolInfoToId(pool) == hash_bytes(StakePoolInfoIdPreimage(pool))

\* faulty variant: the assertion admits 256 owners
StakePoolInfoSerialize_OffByOne(pool) ==
    IF ~(Len(pool.owners) <= 256) THEN [panic |-> TRUE, bytes |-> <<>>]
    ELSE [panic |-> FALSE,
          bytes |-> put_u128(pool.serial)
                      \o put_u8(AsU8(Len(pool.owners)))
                      \o FlattenFixed([i \in 1..Len(pool.owners) |->
                                          serialize_public_key(pool.owners[i])],
                                      PUBLIC_KEY_SIZE)
                      \o serialize_public_key(pool.initial_key.kes_public_key)
                      \o serialize_public_key(pool.initial_key.vrf_public_key)]
\* impl Serialize for StakePoolInfo, on a sink whose writes succeed:
\* the assertion, then serial, owner count, owners, initial_key
StakePoolInfoSerialize(pool) ==
    IF ~(Len(pool.owners) < 256) THEN [panic |-> TRUE, bytes |-> <<>>]
    ELSE [panic |-> FALSE,
          bytes |-> put_u128(pool.serial)
                      \o put_u8(AsU8(Len(pool.owners)))
                      \o FlattenFixed([i \in 1..Len(pool.owners) |->
                                          serialize_public_key(pool.owners[i])],
                                      PUBLIC_KEY_SIZE)
                      \o serialize_public_key(pool.initial_key.kes_public_key)
                      \o serialize_public_key(pool.initial_key.vrf_public_key)]

\* inputs
Serials ==
    {<<0, 0, 0, 0, 0, 0, 0, 1>>, <<1, 2, 3, 4, 5, 6, 7, 8>>,
     <<65535, 65535, 65535, 65535, 65535, 65535, 65535, 65535>>}
KeyA == [i \in 1..PUBLIC_KEY_SIZE |-> i]
KeyB == [i \in 1..PUBLIC_KEY_SIZE |-> 255 - i]
KeyC == Repeat(9, PUBLIC_KEY_SIZE)
OwnerLists == SeqsUpTo({KeyA, KeyB, KeyC}, MaxOwners)
InitialKeys ==
    {[kes_public_key |-> KeyC, vrf_public_key |-> KeyA],
     [kes_public_key |-> KeyB, vrf_public_key |-> KeyB]}
StakePools == [serial : Serials, owners : OwnerLists, initial_key : InitialKeys]
\* pools with owner lists around the limit of the count byte
LongOwnerPools ==
    [serial : Serials,
     owners : {Repeat(KeyA, 255), Repeat(KeyB, 256), Repeat(KeyC, 257)},
     initial_key : InitialKeys]
\* the pool with owners i and j exchanged
SwapOwners(pool, i, j) ==
    [pool EXCEPT !.owners = [@ EXCEPT ![i] = pool.owners[j], ![j] = pool.owners[i]]]
\* pools to compare a pool with: itself, a pool with two owners exchanged, a
\* pool with another serial
PoolsToCompare(pool) ==
    {pool, [pool EXCEPT !.serial = <<0, 0, 0, 0, 0, 0, 0, 2>>]}
        \cup {SwapOwners(pool, i, j) : i, j \in 1..Len(pool.owners)}

StakeIdle ==
    /\ stop = "" /\ pools = <<>> /\ id_preimages = <<>> /\ ids = <<>>
    /\ pool_codec = <<>> /\ stpc = "idle"

InitStake ==
    /\ id_preimages = <<>> /\ ids = <<>> /\ pool_codec = <<>> /\ stpc = "call"
    /\ \/ /\ stop = "to_id"
          /\ \E a \in StakePools : \E b \in PoolsToCompare(a) : pools = <<a, b>>
       \/ /\ stop = "serialize"
          /\ \E a \in StakePools \cup LongOwnerPools : pools = <<a>>

\* pool.to_id(), on the first pool and then on the second
ToId ==
    /\ UNCHANGED nonStakeVars
    /\ stop = "to_id" /\ stpc = "call"
    /\ LET pool == pools[Len(ids) + 1]
       IN  /\ id_preimages' = Append(id_preimages, StakePoolInfoIdPreimage(pool))
           /\ ids' = Append(ids, StakePoolInfoToId(pool))
    /\ stpc' = IF Len(ids) + 1 = Len(pools) THEN "done" ELSE "call"
    /\ UNCHANGED <<stop, pools, pool_codec>>

\* pool.serialize(&mut writer)
PoolSerialize ==
    /\ UNCHANGED nonStakeVars
    /\ stop = "serialize" /\ stpc = "call"
    /\ LET r == StakePoolInfoSerialize(pools[1])
       IN  /\ pool_codec' = r.bytes
           /\ stpc' = IF r.panic THEN "panic" ELSE "done"
    /\ UNCHANGED <<stop, pools, id_preimages, ids>>

NextStake ==
    \/ ToId
    \/ PoolSerialize

----------------------------------------------------------------------------
(* block/mod.rs: the content size of contents too long to write out.       *)
(* Contents are given by the lengths of their raw messages: `runs` runs of *)
(* 65536 messages whose raw form is `raw_len` bytes, then one message for   *)
(* every length in `tail`.  The hash is not modelled here: the header of   *)
(* impl Arbitrary for Block carries the hash compute_hash_size returned.   *)

\* x * 65536 on usize (no product of the model reaches 2^64)
UsizeTimes65536(x) == <<x[2], x[3], x[4], 0>>
\* bytes.len() after the loop of compute_hash_size: every message adds its
\* raw form and the two bytes of its length
RECURSIVE TailBytesLen(_)
TailBytesLen(lens) ==
    IF lens = <<>> THEN UsizeOfLen(0)
    ELSE UsizeAdd(UsizeOfLen(2 + Head(lens)), TailBytesLen(Tail(lens)))
BytesLen(c) ==
    UsizeAdd(UsizeTimes65536(UsizeOfLen(c.runs * (2 + c.raw_len))), TailBytesLen(c.tail))
\* the size component of BlockContents::compute_hash_size: bytes.len(), as
\* it is, with no check against u32
ComputeSize(c) == BytesLen(c)
\* the size half of Block::is_consistent
SizeIsConsistent(c, block_content_size) ==
    ComputeSize(c) = U32AsUsize(block_content_size)

\* raw messages are 1..65535 bytes long (a tag byte and a body, behind a u16)
LongRawLens == {1, 2, 65533, 65534, 65535}
ContentLens ==
    [runs : 0..MaxRuns, raw_len : LongRawLens, tail : SeqsUpTo({1, 65535}, 2)]

SizeIdle ==
    /\ content_lens = [runs |-> 0, raw_len |-> 1, tail |-> <<>>]
    /\ content_size = None /\ arb_content_size = None /\ consistent = None
    /\ zpc = "idle"

InitSize ==
    /\ content_lens \in ContentLens
    /\ content_size = None /\ arb_content_size = None /\ consistent = None
    /\ zpc = "call"

\* let (hash, size) = content.compute_hash_size();
ComputeHashSize ==
    /\ UNCHANGED nonSizeVars
    /\ zpc = "call"
    /\ content_size' = Some(ComputeSize(content_lens))
    /\ zpc' = "sized"
    /\ UNCHANGED <<content_lens, arb_content_size, consistent>>

\* header.common.block_content_size = size as u32;
ArbitraryBlockHeader ==
    /\ UNCHANGED nonSizeVars
    /\ zpc = "sized"
    /\ arb_content_size' = Some(UsizeAsU32(Unwrap(content_size)))
    /\ zpc' = "built"
    /\ UNCHANGED <<content_lens, content_size, consistent>>

\* block.is_consistent() on the block just built
IsConsistent ==
    /\ UNCHANGED nonSizeVars
    /\ zpc = "built"
    /\ consistent' = Some(SizeIsConsistent(content_lens, Unwrap(arb_content_size)))
    /\ zpc' = "checked"
    /\ UNCHANGED <<content_lens, content_size, arb_content_size>>

NextSize ==
    \/ ComputeHashSize
    \/ ArbitraryBlockHeader
    \/ IsConsistent

----------------------------------------------------------------------------
(* Specifications *)

\* the block codec alone, and the update codec alone
InitBlockCodec == InitBlock /\ UpdateIdle /\ SettingsIdle /\ WitnessIdle /\ HdIdle
    /\ StakeIdle /\ SizeIdle
InitUpdateCodec == BlockIdle /\ InitUpdate /\ SettingsIdle /\ WitnessIdle /\ HdIdle
    /\ StakeIdle /\ SizeIdle
SpecBlock == InitBlockCodec /\ [][NextBlock]_vars
SpecUpdate == InitUpdateCodec /\ [][NextUpdate]_vars
\* Settings::apply alone
InitSettingsApply == BlockIdle /\ UpdateIdle /\ InitSettings /\ WitnessIdle /\ HdIdle
    /\ StakeIdle /\ SizeIdle
SpecSettings == InitSettingsApply /\ [][NextSettings]_vars
\* the witness operations alone
InitWitnessOps == BlockIdle /\ UpdateIdle /\ SettingsIdle /\ InitWitness /\ HdIdle
    /\ StakeIdle /\ SizeIdle
SpecWitness == InitWitnessOps /\ [][NextWitness]_vars
\* the HD payload operations alone
InitHdPayload == BlockIdle /\ UpdateIdle /\ SettingsIdle /\ WitnessIdle /\ InitHd
    /\ StakeIdle /\ SizeIdle
SpecHd == InitHdPayload /\ [][NextHd]_vars
\* the stake pool operations alone
InitStakePool == BlockIdle /\ UpdateIdle /\ SettingsIdle /\ WitnessIdle /\ HdIdle
    /\ InitStake /\ SizeIdle
SpecStake == InitStakePool /\ [][NextStake]_vars
\* the content size alone
InitContentSize == BlockIdle /\ UpdateIdle /\ SettingsIdle /\ WitnessIdle /\ HdIdle
    /\ StakeIdle /\ InitSize
SpecContentSize == InitContentSize /\ [][NextSize]_vars

Init ==
    InitBlockCodec \/ InitUpdateCodec \/ InitSettingsApply \/ InitWitnessOps
        \/ InitHdPayload \/ InitStakePool \/ InitContentSize
Next ==
    NextBlock \/ NextUpdate \/ NextSettings \/ NextWitness \/ NextHd \/ NextStake
        \/ NextSize
Spec == Init /\ [][Next]_vars

----------------------------------------------------------------------------
(* Claims about Block::serialize and Block::deserialize *)

\* the loop is about to read a whole MessageRaw that is larger than the
\* size that remains
Overrun ==
    /\ bpc = "loop"
    /\ LoopContinues(serialized_content_size)
    /\ RawDeserialize(reader).ok
    /\ U32Gt(AsU32(size_bytes_plus_size(RawDeserialize(reader).raw)),
             serialized_content_size)

\* C1: whenever a message read inside the content loop is larger than the
\* remaining declared content size, deserialize returns a decode error and
\* no block, and the remaining counter does not wrap.
C1_OverrunIsDecodeError ==
    [][Overrun => (bpc' = "err" /\ ~wrapped')]_vars

C3_BlockRoundTrip ==
    (IsSome(blk) /\ is_consistent(Unwrap(blk))) =>
        /\ bpc \notin {"err", "panic"}
        /\ ~wrapped
        /\ bpc = "ok" =>
              /\ BlockEq(Returned, Unwrap(blk))
              /\ Returned.header = Unwrap(blk).header
              /\ Returned.contents = Unwrap(blk).contents
              /\ reader = <<>>
C3_Witness ==
    /\ bpc = "ok" /\ IsSome(blk) /\ is_consistent(Unwrap(blk))
    /\ Len(contents) = MaxMessages
    /\ contents[1] # contents[2]

\* C4: deserialize completes with a block exactly when the remaining
\* declared content size reaches 0; if the reader runs out of bytes while
\* the remaining size is still greater than 0 it returns an error.
C4_CompleteExactlyAtZero ==
    /\ [](bpc = "ok" => serialized_content_size = U32Zero)
    /\ [][(bpc = "loop" /\ serialized_content_size = U32Zero) => bpc' = "ok"]_vars
    /\ [][(bpc = "loop" /\ serialized_content_size # U32Zero
              /\ ~RawDeserialize(reader).ok) => bpc' = "err"]_vars
C4_Witness ==
    /\ bpc = "err" /\ serialized_content_size # U32Zero /\ ~wrapped
    /\ reader = <<>>

\* the raw frames found in a byte stream by reading it to its end
RECURSIVE Frames(_)
Frames(bytes) ==
    IF bytes = <<>> THEN <<>>
    ELSE LET f == RawDeserialize(bytes)
         IN  IF ~f.ok THEN << <<-1>> >> ELSE <<f.raw>> \o Frames(f.rest)

\* C5: serialize writes the u16-length-prefixed serialized header, then the
\* raw form of each message in contents order, and nothing else; for a
\* consistent block the bytes after the HeaderRaw total block_content_size.
C5_SerializeLayout ==
    bpc = "written" =>
        LET b == Unwrap(blk)
            frames == Frames(writer)
        IN  /\ Len(frames) = 1 + Len(b.contents)
            /\ frames[1] = HeaderSerialize(b.header)
            /\ \A i \in 1..Len(b.contents) : frames[i + 1] = MessageToRaw(b.contents[i])
            /\ is_consistent(b) =>
                  AsU32(Len(writer) - 2 - Len(frames[1])) = b.header.block_content_size
C5_Witness ==
    /\ bpc = "written" /\ is_consistent(Unwrap(blk))
    /\ Len(Unwrap(blk).contents) = MaxMessages
    /\ Unwrap(blk).contents[1] # Unwrap(blk).contents[2]

----------------------------------------------------------------------------
(* Claims about UpdateProposal::serialize and UpdateProposal::read *)

\* the field each tag 1..8 sets
FieldOfTag ==
    <<"max_number_of_transactions_per_block", "bootstrap_key_slots_percentage",
      "consensus_version", "bft_leaders", "allow_account_creation", "linear_fees",
      "slot_duration", "epoch_stability_depth">>
Fields == {FieldOfTag[t] : t \in 1..8}

\* read is at a record boundary and the next u16 is no tag of the protocol
AtUnknownTag ==
    /\ upc = "reading"
    /\ get_u16(buf.data, buf.offset).ok
    /\ get_u16(buf.data, buf.offset).value \notin 0..8

\* C6: on a u16 tag outside 0..=8 at a record boundary, read returns the
\* recoverable decode error UnknownTag; it neither panics nor skips.
C6_UnknownTagIsDecodeError ==
    [][AtUnknownTag => (upc' = "err" /\ uerr' = "UnknownTag")]_vars

\* C7: for every proposal p, read(serialize(p)) succeeds, returns a
\* proposal equal to p and consumes exactly the bytes serialize wrote.
C7_UpdateRoundTrip ==
    IsSome(proposal) =>
        /\ upc \notin {"err", "panic"}
        /\ upc = "ok" => (update = Unwrap(proposal) /\ buf.offset = Len(codec))

\* the bytes read consumed
Consumed == Take(buf.data, buf.offset)

\* C8: for every byte string that read accepts, serializing the decoded
\* proposal reproduces exactly the bytes that were consumed.
C8_ReencodeIsIdentity ==
    upc = "ok" => UpdateProposalSerialize(update) = Consumed

\* the records of the wire input come in strictly increasing tag order
\* (hence each tag at most once) and a boolean payload is 0 or 1
CanonicalRecords ==
    /\ \A i \in 1..(Len(records) - 1) : records[i].tag < records[i + 1].tag
    /\ \A i \in 1..Len(records) :
          records[i].tag = TagAllowAccountCreation => records[i].bytes[3] \in {0, 1}

\* C8 as amended: for every byte string that read accepts whose records
\* are in strictly increasing tag order and whose AllowAccountCreation
\* payload is 0 or 1, serializing the decoded proposal reproduces exactly
\* the bytes that were consumed.
C8_ReencodeOfCanonicalInput ==
    (upc = "ok" /\ proposal = None /\ CanonicalRecords) =>
        UpdateProposalSerialize(update) = Consumed
C8_Witness ==
    /\ upc = "ok" /\ proposal = None /\ CanonicalRecords
    /\ Len(records) = 2 /\ records[1].tag = TagAllowAccountCreation
    /\ Len(buf.data) > buf.offset

\* the value the last record that sets field f carries, None without one
LastSetting(recs, f) ==
    LET idx == {i \in 1..Len(recs) : IsSome(recs[i].sets[f])}
    IN  IF idx = {} THEN None
        ELSE recs[CHOOSE i \in idx : \A j \in idx : j <= i].sets[f]

\* C9: read accepts the tagged records in any order up to the End tag; a
\* field whose tag occurs more than once holds the value of the last
\* occurrence, and a field whose tag never occurs stays None.
C9_LastOccurrenceWins ==
    /\ buf.data = WireOf(records, EndOnly) => upc \notin {"err", "panic"}
    /\ (upc = "ok" /\ proposal = None) =>
          \A f \in Fields : update[f] = LastSetting(records, f)
C9_Witness ==
    /\ upc = "ok" /\ proposal = None /\ Len(records) = 2
    /\ records[1].tag = records[2].tag
    /\ records[1].sets # records[2].sets
    /\ update = records[2].sets

\* the payload length of the record of a present field (the table of tags)
PayloadLen(p, tag) ==
    CASE tag = 1 -> 4
      [] tag = 2 -> 1
      [] tag = 3 -> 2
      [] tag = 4 -> 1 + PUBLIC_KEY_SIZE * Len(Unwrap(p.bft_leaders))
      [] tag = 5 -> 1
      [] tag = 6 -> 24
      [] tag = 7 -> 1
      [] tag = 8 -> 4
\* the tags of the present fields, in increasing order
PresentTags(p) == SelectSeq(<<1, 2, 3, 4, 5, 6, 7, 8>>, LAMBDA t : IsSome(p[FieldOfTag[t]]))
\* from `off` on, `data` holds one record per tag of `tags`, in that order,
\* then the End tag as its last two bytes
RECURSIVE RecordsThenEnd(_, _, _, _)
RecordsThenEnd(data, off, tags, p) ==
    IF tags = <<>>
    THEN off + 2 = Len(data) /\ SubSeq(data, off + 1, off + 2) = <<0, 0>>
    ELSE /\ off + 2 <= Len(data)
         /\ SubSeq(data, off + 1, off + 2) = <<0, Head(tags)>>
         /\ RecordsThenEnd(data, off + 2 + PayloadLen(p, Head(tags)), Tail(tags), p)

\* C10: serialize emits one (u16 tag, payload) record for each present
\* field and none for an absent one, in strictly increasing tag order,
\* then exactly one End tag as the last two bytes; a proposal with only
\* slot_duration = Some(7) encodes to 00 07 07 00 00.
C10_SerializeRecordsInTagOrder ==
    upc = "written" =>
        /\ RecordsThenEnd(codec, 0, PresentTags(Unwrap(proposal)), Unwrap(proposal))
        /\ Unwrap(proposal) = [UpdateProposalNew EXCEPT !.slot_duration = Some(7)]
              => codec = <<0, 7, 7, 0, 0>>
C10_Witness ==
    /\ upc = "written"
    /\ Len(PresentTags(Unwrap(proposal))) = 8
    /\ Len(Unwrap(Unwrap(proposal).bft_leaders)) = 2

----------------------------------------------------------------------------
(* Claims about Settings::apply *)

SettingsFields ==
    {"max_number_of_transactions_per_block", "bootstrap_key_slots_percentage",
     "consensus_version", "bft_leaders", "allow_account_creation", "linear_fees",
     "slot_duration", "epoch_stability_depth"}
\* the proposal's value of a field, as a value of the field of Settings:
\* only epoch_stability_depth changes type (u32 to usize, same number)
ProposedValue(f, v) ==
    IF f = "epoch_stability_depth"
    THEN <<0, 0>> \o v
    ELSE v

\* C11: for every Settings s and UpdateProposal p, s.apply(p) returns a
\* Settings in which each field is p's value when p has the field and s's
\* value when p has not, s itself is the same after the call as before it,
\* and applying the empty proposal returns a Settings equal to s.
C11_ApplyOverwritesPresentFieldsOnly ==
    /\ [](spc = "returned" =>
            /\ IsSome(new_state)
            /\ \A f \in SettingsFields :
                 Unwrap(new_state)[f] =
                    IF IsSome(sproposal[f])
                    THEN ProposedValue(f, Unwrap(sproposal[f]))
                    ELSE settings[f]
            /\ (sproposal = UpdateProposalNew => Unwrap(new_state) = settings))
    /\ [][settings' = settings]_vars
\* apply has returned for a proposal that has some fields and lacks others,
\* on settings that differ from the result and from Settings::new() in a
\* field the proposal lacks
C11_Witness ==
    /\ spc = "returned"
    /\ IsSome(sproposal.epoch_stability_depth)
    /\ IsSome(sproposal.bft_leaders)
    /\ ~IsSome(sproposal.slot_duration)
    /\ settings.slot_duration # SettingsNew.slot_duration
    /\ Unwrap(new_state) # settings
    /\ Unwrap(new_state).slot_duration = settings.slot_duration

----------------------------------------------------------------------------
(* Claims about transaction/witness.rs *)

\* C12: for every TransactionId and SpendingCounter,
\* TransactionIdSpendingCounter::new returns normally, and what it returns
\* is 37 bytes: the byte 0x02, the 32 bytes of the transaction id, the
\* spending counter as 4 big-endian bytes.
C12_NewReturnsAccountPreimage ==
    (wop = "tidsc" /\ wpc # "call") =>
        /\ wpc = "done"
        /\ IsSome(preimage)
        /\ Len(Unwrap(preimage)) = 37
        /\ Unwrap(preimage)[1] = 2
        /\ SubSeq(Unwrap(preimage), 2, 33) = transaction_id
        /\ SubSeq(Unwrap(preimage), 34, 37) =
              <<spending_counter[1] \div 256, spending_counter[1] % 256,
                spending_counter[2] \div 256, spending_counter[2] % 256>>

\* C13: Witness::verify_utxo returns an outcome for every witness variant
\* and never aborts: Verification::Failed on an Account witness, and on an
\* OldUtxo witness an outcome the caller receives, not a panic.
C13_VerifyUtxoNeverAborts ==
    (wop = "verify" /\ wpc # "call") =>
        /\ wpc = "done"
        /\ verification \in {"Success", "Failed"}
        /\ (Unwrap(witness).variant = "Account" => verification = "Failed")

\* C14: for every spending secret key sk and transaction id tx,
\* Witness::new_utxo(tx, sk).verify_utxo(sk.to_public(), tx) returns
\* Verification::Success.
C14_WitnessVerifiesOwnTx ==
    (wop = "own_tx" /\ wpc \notin {"call", "made"}
        /\ public_key = [of |-> Unwrap(secret_key)]) =>
        /\ wpc = "done"
        /\ verification = "Success"
\* verify_utxo has returned for a witness new_utxo made, under the public
\* key of the signing secret key
C14_Witness ==
    /\ wop = "own_tx" /\ wpc = "done"
    /\ Unwrap(witness).variant = "Utxo"
    /\ public_key = [of |-> Unwrap(secret_key)]
    /\ Unwrap(secret_key) = 3
    /\ verification = "Success"

----------------------------------------------------------------------------
(* Claims about wallet-crypto hdpayload.rs *)

\* C15: for every derivation path, the empty path included, and every
\* HDKey k, k.decrypt_path(k.encrypt_path(path)) == Some(path).
C15_PathRoundTrip ==
    (hop = "path" /\ hpc \notin {"call", "encrypted"}) =>
        /\ hpc = "done"
        /\ hd_path_out = hd_path
        /\ IsSome(hd_path_out)
\* decrypt_path has returned the empty path, and a path whose indices take
\* one, three and five bytes of CBOR
C15_Witness ==
    /\ hop = "path" /\ hpc = "done"
    /\ \/ hd_path_out = Some(<<>>)
       \/ hd_path_out = Some(<<<<65535, 65535>>, <<0, 256>>>>)
    /\ Len(hd_payload) = Len(hd_input) + 16

\* C16: HDKey::decrypt returns None, with no panic and no attempt at an
\* oversized allocation, for every input shorter than 17 bytes (the empty
\* input and inputs of 1 to 15 bytes included), returns None when the
\* authentication fails, and is never fatal.
C16_DecryptShortInputIsNone ==
    (hop = "decrypt" /\ hpc # "call") =>
        /\ hpc = "done"
        /\ (Len(hd_payload) < 17 => hd_out = None)
        /\ (/\ Len(hd_payload) >= 16
            /\ Drop(hd_payload, Len(hd_payload) - 16)
                  # AeadTag(hdkey, NONCE, Take(hd_payload, Len(hd_payload) - 16)))
              => hd_out = None

\* C17 as stated: for every HDKey k and every plaintext x of any length,
\* the empty one included, k.encrypt(x) is len(x) + 16 bytes long and
\* k.decrypt(k.encrypt(x)) == Some(x).
C17_EncryptDecryptRoundTrip ==
    /\ (hop = "bytes" /\ hpc # "call") => Len(hd_payload) = Len(hd_input) + 16
    /\ (hop = "bytes" /\ hpc \notin {"call", "encrypted"}) =>
            /\ hpc = "done"
            /\ hd_out = Some(hd_input)
\* C17, amended: k.encrypt(x) is len(x) + 16 bytes long for every x;
\* k.decrypt(k.encrypt(x)) == Some(x) for every x that is not empty, and
\* k.decrypt(k.encrypt(x)) == None for the empty x.
C17_RoundTripOfNonEmptyPlaintext ==
    /\ (hop = "bytes" /\ hpc # "call") => Len(hd_payload) = Len(hd_input) + 16
    /\ (hop = "bytes" /\ hpc \notin {"call", "encrypted"}) =>
            /\ hpc = "done"
            /\ hd_out = IF hd_input = <<>> THEN None ELSE Some(hd_input)
\* decrypt has returned the one-byte plaintext that encrypt was given
C17_Witness ==
    /\ hop = "bytes" /\ hpc = "done"
    /\ Len(hd_input) = 1
    /\ Len(hd_payload) = 17
    /\ hd_out = Some(hd_input)

----------------------------------------------------------------------------
(* Claims about stake/role.rs *)

\* the bytes of to_id's preimage, field by field: serial as 16 big-endian
\* bytes, the owner keys in list order, the KES key, the VRF key
PreimageLayout(v, pool) ==
    LET n == Len(pool.owners)
    IN  /\ Len(v) = 16 + 32 * n + 32 + 32
        /\ \A k \in 1..8 : /\ v[2 * k - 1] = pool.serial[k] \div 256
                           /\ v[2 * k] = pool.serial[k] % 256
        /\ \A i \in 1..n : SubSeq(v, 16 + 32 * (i - 1) + 1, 16 + 32 * i) = pool.owners[i]
        /\ SubSeq(v, 16 + 32 * n + 1, 16 + 32 * n + 32) = pool.initial_key.kes_public_key
        /\ SubSeq(v, 16 + 32 * n + 33, 16 + 32 * n + 64) = pool.initial_key.vrf_public_key
\* b is a with two distinct owner keys exchanged, and nothing else changed
DifferInOwnerOrderOnly(a, b) ==
    /\ a.serial = b.serial /\ a.initial_key = b.initial_key
    /\ Len(a.owners) = Len(b.owners)
    /\ \E i, j \in 1..Len(a.owners) :
          /\ a.owners[i] # a.owners[j]
          /\ b.owners = [a.owners EXCEPT ![i] = a.owners[j], ![j] = a.owners[i]]

\* C18: StakePoolInfo::to_id depends on the field values only: it hashes
\* serial as 16 big-endian bytes, then the owner keys in list order, then
\* the KES public key, then the VRF public key; two pools with equal fields
\* get equal ids, and two pools that differ only in the order of two
\* distinct owner keys hash different preimages and get different ids.
C18_ToIdHashesFieldsInOrder ==
    (stop = "to_id" /\ stpc = "done") =>
        /\ \A k \in 1..2 : /\ PreimageLayout(id_preimages[k], pools[k])
                           /\ ids[k] = hash_bytes(id_preimages[k])
        /\ (pools[1] = pools[2] => ids[1] = ids[2])
        /\ (DifferInOwnerOrderOnly(pools[1], pools[2]) =>
                /\ id_preimages[1] # id_preimages[2]
                /\ ids[1] # ids[2])
\* to_id has returned for two pools that differ in the order of two
\* distinct owners, with different ids
C18_Witness ==
    /\ stop = "to_id" /\ stpc = "done"
    /\ DifferInOwnerOrderOnly(pools[1], pools[2])
    /\ ids[1] # ids[2]

\* C19 as stated: StakePoolInfo::serialize returns Ok for every
\* StakePoolInfo, whatever the number of owners, when the writes of the
\* sink succeed: it never panics.
C19_SerializeNeverPanics ==
    (stop = "serialize" /\ stpc # "call") => stpc = "done"
\* C19, amended: StakePoolInfo::serialize returns Ok for every
\* StakePoolInfo with fewer than 256 owners, having written serial (16
\* bytes), the number of owners (1 byte), the owner keys, the KES and the
\* VRF key; with 256 owners or more it panics on its assertion and writes
\* nothing.
C19_SerializeOkBelow256Owners ==
    (stop = "serialize" /\ stpc # "call") =>
        LET pool == pools[1]
            n == Len(pool.owners)
        IN  IF n < 256
            THEN /\ stpc = "done"
                 /\ Len(pool_codec) = 16 + 1 + 32 * n + 64
                 /\ pool_codec[17] = n
                 /\ SubSeq(pool_codec, 1, 16) = SubSeq(StakePoolInfoIdPreimage(pool), 1, 16)
                 /\ SubSeq(pool_codec, 18, Len(pool_codec))
                        = SubSeq(StakePoolInfoIdPreimage(pool), 17, 16 + 32 * n + 64)
            ELSE /\ stpc = "panic"
                 /\ pool_codec = <<>>
\* serialize has returned Ok for a pool with 255 owners
C19_Witness ==
    /\ stop = "serialize" /\ stpc = "done"
    /\ Len(pools[1].owners) = 255
    /\ pool_codec[17] = 255

----------------------------------------------------------------------------
(* Claims about the content size *)

\* C20: the content size BlockContents::compute_hash_size produces always
\* fits in a u32: contents whose concatenated serialization is 2^32 bytes
\* or longer are rejected with an encode error, and no size is reported
\* that is truncated, or compared modulo 2^32, against the u32
\* block_content_size of the header.
C20_ContentSizeFitsU32 ==
    /\ IsSome(content_size) =>
            /\ Unwrap(content_size)[1] = 0
            /\ Unwrap(content_size)[2] = 0
    /\ IsSome(arb_content_size) =>
            <<0, 0>> \o Unwrap(arb_content_size) = Unwrap(content_size)

-----------------------------------------------------------------------------
(* Termination of the message loop of Block::deserialize *)

\* deserialize is a sequential function: once called it runs each of its
\* steps until it returns or panics
SpecBlockFair ==
    /\ InitBlockCodec
    /\ [][NextBlock]_vars
    /\ WF_vars(DeserializeHeader)
    /\ WF_vars(DeserializeMessage)
    /\ WF_vars(DeserializeReturn)

\* deserialize has left the loop: by returning Ok, by an error of `?`, or
\* by the panic of the u32 subtraction
LoopLeft == bpc \in {"ok", "err", "panic"}

\* an iteration after which the loop goes on has taken at least the 2-byte
\* length prefix of one MessageRaw from the reader
LoopConsumesReader ==
    [][(bpc = "loop" /\ bpc' = "loop") => Len(reader') + 2 <= Len(reader)]_vars

\* under SpecBlockFair every call leaves the loop, whatever size the
\* header declares
LoopTerminates == (bpc = "wire") ~> LoopLeft

\* C21: on every finite input the message loop of Block::deserialize ends,
\* and it ends either with the remaining size at 0 (Ok) or with an error.
C21_LoopEndsAtZeroOrError ==
    LoopLeft =>
        \/ bpc = "ok" /\ serialized_content_size = U32Zero
        \/ bpc = "err"

=============================================================================
